---- MODULE Spec2Model ----
(***************************************************************************)
(* Model of the product embedding index: FirestoreVectorDB.store_products  *)
(* (write path), FirestoreVectorDB.vector_search and                       *)
(* MultimodalRAGSystem.search_* (read path).                               *)
(***************************************************************************)
EXTENDS Integers, Sequences, FiniteSets, TLC

\* ------------------------------------------------------------------ bounds
NumProducts == 2
Dim == 2
AlphaDen == 2

Products == 1..NumProducts
\* The two places that call store_products: GET /start-index and the UI button.
Runs == {"api", "ui"}

NoDoc == [missing |-> TRUE]
NoSearch == [op |-> "none"]

VARIABLES
  is_emb,     \* product collection: is_emb field of each product record
  docs,       \* vector collection: embedding document of each id, or NoDoc
  pc,         \* position of each store_products invocation
  snap,       \* products_data of each invocation (the pending snapshot)
  idx,        \* loop index i (1-based) of each invocation
  failed,     \* ids for which a step of the invocation failed or came back empty
  wrote,      \* ids whose embedding document the invocation has set
  cause,      \* what sent the invocation to the outer except handler
  flipped,    \* ids whose is_emb the invocation has updated
  prior,      \* the invocations that had returned True when this one started
  stopped,    \* the invocations that had failed or crashed when this one started
  fields,     \* product collection: the other fields of each product record
  out         \* outcome of the last search call

vars ==
  <<is_emb, docs, pc, snap, idx, failed, wrote, cause, flipped, prior, stopped,
    fields, out>>

\* ------------------------------------------------------- embedding provider
\* encode_text / encode_image swallow every exception and return None.
TextOutcomes == {"vec", "none", "raise"}   \* "raise": product["product_name"] raises
FetchOutcomes == {"ok", "raise"}
ImageOutcomes == {"vec", "none"}

\* The model in eval mode is a function of its input: one vector per product.
EncodeText(p) == [j \in 1..Dim |-> IF j = 1 THEN p ELSE 1]
EncodeImage(p) == [j \in 1..Dim |-> IF j = Dim THEN p ELSE 0 - 1]

\* ------------------------------------------------------------ store_products
RECURSIVE SeqOfSet(_)
SeqOfSet(S) ==
  IF S = {} THEN <<>>
  ELSE LET m == CHOOSE x \in S : \A y \in S : x <= y
       IN <<m>> \o SeqOfSet(S \ {m})

\* query = product_collection.where("is_emb", "==", "R"); docs = query.get()
PendingQueryAll(st) == SeqOfSet(Products)
PendingQuery(st) == SeqOfSet({p \in Products : st[p] = "R"})

\* What the loop body does with one record, from the outcomes of its calls.
ItemOutcomeOr(t, f, im) ==
  IF t = "raise" THEN "continue"
  ELSE IF f = "raise" THEN "abort"
  ELSE IF t = "vec" \/ im = "vec" THEN "store"
  ELSE "skip"
ItemOutcome(t, f, im) ==
  IF t = "raise" THEN "continue"
  ELSE IF f = "raise" THEN "abort"
  ELSE IF t = "vec" /\ im = "vec" THEN "store"
  ELSE "skip"

ItemFailed(t, f, im) == t # "vec" \/ f # "ok" \/ im # "vec"

\* The record is left as it is when it is skipped.
SkipStateReset(st, p) == [st EXCEPT ![p] = "R"]
SkipState(st, p) == st

\* embedding_collection.document(id).set(...) then product .update(...)
NextPcAfterSetSwallow(ok) == "flip"
NextPcAfterSet(ok) == IF ok THEN "flip" ELSE "failed"

UpdateIsEmbLost(st, p) == st
UpdateIsEmb(st, p) == [st EXCEPT ![p] = "D"]

\* What a product record holds beside is_emb.
CatalogFields ==
  [p \in Products |-> [id |-> p, product_name |-> "name", image_url |-> "url"]]

\* update() merges the given field into the record: the others stay.
FieldsAfterUpdate(fl, p) == fl

Cur(r) == snap[r][idx[r]]

Start(r) ==
  /\ pc[r] = "idle"
  /\ \E ok \in BOOLEAN :
       IF ok
       THEN /\ snap' = [snap EXCEPT ![r] = PendingQuery(is_emb)]
            /\ pc' = [pc EXCEPT ![r] = "loop"]
            /\ cause' = cause
       ELSE /\ pc' = [pc EXCEPT ![r] = "failed"]
            /\ cause' = [cause EXCEPT ![r] = "query"]
            /\ snap' = snap
  /\ prior' = [prior EXCEPT ![r] = {r1 \in Runs : pc[r1] = "done"}]
  /\ stopped' = [stopped EXCEPT ![r] =
                   {r1 \in Runs : pc[r1] \in {"failed", "crashed"}}]
  /\ UNCHANGED <<is_emb, docs, idx, failed, wrote, flipped, fields, out>>

Embed(r) ==
  /\ pc[r] = "loop"
  /\ idx[r] <= Len(snap[r])
  /\ \E t \in TextOutcomes, f \in FetchOutcomes, im \in ImageOutcomes :
       LET p == Cur(r)
           o == ItemOutcome(t, f, im)
       IN /\ failed' = [failed EXCEPT ![r] =
                          IF ItemFailed(t, f, im) THEN @ \cup {p} ELSE @]
          /\ CASE o = "abort" ->
                    /\ pc' = [pc EXCEPT ![r] = "failed"]
                    /\ cause' = [cause EXCEPT ![r] = "image"]
                    /\ UNCHANGED <<idx, is_emb>>
               [] o = "store" ->
                    /\ pc' = [pc EXCEPT ![r] = "write"]
                    /\ UNCHANGED <<idx, is_emb, cause>>
               [] OTHER ->
                    /\ idx' = [idx EXCEPT ![r] = @ + 1]
                    /\ is_emb' = SkipState(is_emb, p)
                    /\ UNCHANGED <<pc, cause>>
  /\ UNCHANGED <<docs, snap, wrote, flipped, prior, stopped, fields, out>>

WriteDoc(r) ==
  /\ pc[r] = "write"
  /\ \E ok \in BOOLEAN :
       LET p == Cur(r) IN
       /\ pc' = [pc EXCEPT ![r] = NextPcAfterSet(ok)]
       /\ IF ok
          THEN /\ docs' = [docs EXCEPT ![p] =
                             [text |-> EncodeText(p), image |-> EncodeImage(p)]]
               /\ wrote' = [wrote EXCEPT ![r] = @ \cup {p}]
               /\ cause' = cause
          ELSE /\ cause' = [cause EXCEPT ![r] = "set"]
               /\ UNCHANGED <<docs, wrote>>
  /\ UNCHANGED <<is_emb, snap, idx, failed, flipped, prior, stopped, fields, out>>

Flip(r) ==
  /\ pc[r] = "flip"
  /\ \E ok \in BOOLEAN :
       IF ok
       THEN /\ is_emb' = UpdateIsEmb(is_emb, Cur(r))
            /\ fields' = FieldsAfterUpdate(fields, Cur(r))
            /\ idx' = [idx EXCEPT ![r] = @ + 1]
            /\ pc' = [pc EXCEPT ![r] = "loop"]
            /\ flipped' = [flipped EXCEPT ![r] = @ \cup {Cur(r)}]
            /\ cause' = cause
       ELSE /\ pc' = [pc EXCEPT ![r] = "failed"]
            /\ cause' = [cause EXCEPT ![r] = "update"]
            /\ UNCHANGED <<is_emb, idx, flipped, fields>>
  /\ UNCHANGED <<docs, snap, failed, wrote, prior, stopped, out>>

Finish(r) ==
  /\ pc[r] = "loop"
  /\ idx[r] > Len(snap[r])
  /\ pc' = [pc EXCEPT ![r] = "done"]
  /\ UNCHANGED <<is_emb, docs, snap, idx, failed, wrote, cause, flipped, prior,
                 stopped, fields, out>>

\* The process stops (killed, power loss) anywhere inside the call.
Crash(r) ==
  /\ pc[r] \in {"loop", "write", "flip"}
  /\ pc' = [pc EXCEPT ![r] = "crashed"]
  /\ UNCHANGED <<is_emb, docs, snap, idx, failed, wrote, cause, flipped, prior,
                 stopped, fields, out>>


\* ------------------------------------------------------------- vector_search
Min(a, b) == IF a <= b THEN a ELSE b

RECURSIVE SumTo(_, _)
SumTo(f, n) == IF n = 0 THEN 0 ELSE f[n] + SumTo(f, n - 1)

\* np.dot of two 1-D arrays of the same length
Dot(a, b) == SumTo([j \in 1..Len(a) |-> a[j] * b[j]], Len(a))

\* np.dot raises ValueError on arrays of different lengths: the except returns 0.0
calculate_dot_product_score(vec1, vec2) ==
  IF Len(vec1) = Len(vec2) THEN Dot(vec1, vec2) ELSE 0

\* list.sort(key=..., reverse=True): descending by key, equal keys keep their
\* order. A key is a fraction num / den with den > 0.
KeyGeq(k1, k2) == k1.num * k2.den >= k2.num * k1.den

SortPosTiesReversed(keys, i) ==
  1 + Cardinality({j \in 1..Len(keys) :
                     \/ ~KeyGeq(keys[i], keys[j])
                     \/ (KeyGeq(keys[j], keys[i]) /\ j > i)})
SortPos(keys, i) ==
  1 + Cardinality({j \in 1..Len(keys) :
                     \/ ~KeyGeq(keys[i], keys[j])
                     \/ (KeyGeq(keys[j], keys[i]) /\ j < i)})

SortDesc(s, keys) ==
  [k \in 1..Len(s) |-> s[CHOOSE i \in 1..Len(s) : SortPos(keys, i) = k]]

\* key=lambda x: x.get("similarity_score", 0)
ScoreKey(hit) == [num |-> hit.score, den |-> 1]

VectorField(doc, query_type) == IF query_type = "image" THEN doc.image ELSE doc.text

\* One iteration of the loop over vector_query.stream(): the hit built from a
\* candidate document.
Hit(dcs, id, query_embedding, query_type) ==
  LET embedding_vec == VectorField(dcs[id], query_type)
  IN [id |-> id,
      score |-> IF embedding_vec # <<>>
                THEN calculate_dot_product_score(query_embedding, embedding_vec)
                ELSE 0,
      text |-> dcs[id].text,
      image |-> dcs[id].image]

\* What find_nearest may deliver: `limit` of the stored documents (all of them
\* when there are fewer), in the order of the store's own index, or an error.
Stored(dcs) == {p \in Products : dcs[p] # NoDoc}
StoreRaises == [ok |-> FALSE, ids |-> <<>>]
StoreDelivers(dcs, limit) ==
  LET k == Min(limit, Cardinality(Stored(dcs)))
  IN {[ok |-> TRUE, ids |-> s] :
        s \in {t \in [1..k -> Stored(dcs)] :
                 \A i, j \in 1..k : i # j => t[i] # t[j]}}
StoreResponses(dcs, limit) == StoreDelivers(dcs, limit) \cup {StoreRaises}

\* resp is the store's response; an exception anywhere in the body returns [].
vector_search(dcs, query_embedding, query_type, resp) ==
  IF ~resp.ok THEN <<>>
  ELSE LET results == [i \in 1..Len(resp.ids) |->
                         Hit(dcs, resp.ids[i], query_embedding, query_type)]
       IN SortDesc(results, [i \in 1..Len(results) |-> ScoreKey(results[i])])

\* --------------------------------------------------------- search_multimodal
\* combined_dict: first occurrence of each id in text_results + image_results
RECURSIVE Dedup(_, _)
Dedup(s, seen) ==
  IF s = <<>> THEN <<>>
  ELSE IF s[1].id \in seen THEN Dedup(Tail(s), seen)
  ELSE <<s[1]>> \o Dedup(Tail(s), seen \cup {s[1].id})

\* alpha is a / AlphaDen. WeightedSum is AlphaDen times the code's
\* alpha_img * i + alpha_text * t over zip(image, text); cosine_similarity is
\* unchanged by a positive factor common to a whole vector.
WeightedSumSwapped(a, image_emb, text_emb) ==
  [j \in 1..Min(Len(image_emb), Len(text_emb)) |->
     (AlphaDen - a) * image_emb[j] + a * text_emb[j]]
WeightedSum(a, image_emb, text_emb) ==
  [j \in 1..Min(Len(image_emb), Len(text_emb)) |->
     a * image_emb[j] + (AlphaDen - a) * text_emb[j]]

Scaled(v) == [j \in 1..Len(v) |-> AlphaDen * v[j]]

CombinedEmbedding(a, doc) ==
  IF doc.text # <<>> /\ doc.image # <<>> THEN WeightedSum(a, doc.image, doc.text)
  ELSE IF doc.text # <<>> THEN Scaled(doc.text)
  ELSE IF doc.image # <<>> THEN Scaled(doc.image)
  ELSE <<>>

\* cosine_similarity(a, b) as the exact value dot / sqrt(na * nb), kept as
\* the triple it is computed from; 0 when a norm is 0.
Sq(v) == SumTo([j \in 1..Len(v) |-> v[j] * v[j]], Len(v))
cosine_similarity(a, b) ==
  LET n == Min(Len(a), Len(b))
  IN [dot |-> SumTo([j \in 1..n |-> a[j] * b[j]], n), na |-> Sq(a), nb |-> Sq(b)]

Sgn(x) == IF x > 0 THEN 1 ELSE IF x < 0 THEN 0 - 1 ELSE 0
\* The sort key of a cosine c: sign(c) * c^2, which orders as c does.
CosKeyDot(c) == [num |-> c.dot, den |-> 1]
CosKey(c) ==
  IF c.na = 0 \/ c.nb = 0 THEN [num |-> 0, den |-> 1]
  ELSE [num |-> Sgn(c.dot) * c.dot * c.dot, den |-> c.na * c.nb]

\* text_embedding / image_embedding are the encoded queries (<<>> for None).
search_multimodal(dcs, text_embedding, image_embedding, limit, a, respT, respI) ==
  IF text_embedding = <<>> \/ image_embedding = <<>> THEN <<>>
  ELSE
    LET text_results == vector_search(dcs, text_embedding, "text", respT)
        image_results == vector_search(dcs, image_embedding, "image", respI)
        combined_results == Dedup(text_results \o image_results, {})
        query_combined == WeightedSum(a, image_embedding, text_embedding)
        keyed == [i \in 1..Len(combined_results) |->
                    [id |-> combined_results[i].id,
                     score |-> combined_results[i].score,
                     text |-> combined_results[i].text,
                     image |-> combined_results[i].image,
                     cos |-> cosine_similarity(
                               CombinedEmbedding(a, combined_results[i]),
                               query_combined)]]
        sorted == SortDesc(keyed, [i \in 1..Len(keyed) |-> CosKey(keyed[i].cos)])
    IN SubSeq(sorted, 1, Min(limit, Len(sorted)))


\* What a search call leaves behind: its arguments, the store's responses and
\* the list it returns. vector_search and search_multimodal return a list on
\* every path; no path raises to the caller.
vector_search_out(dcs, q, query_type, limit, resp) ==
  [op |-> "vector_search", q |-> q, query_type |-> query_type, limit |-> limit,
   resp |-> resp, raised |-> "none",
   hits |-> vector_search(dcs, q, query_type, resp)]

search_multimodal_out(dcs, tq, iq, limit, a, respT, respI) ==
  [op |-> "multimodal", tq |-> tq, iq |-> iq, limit |-> limit, a |-> a,
   respT |-> respT, respI |-> respI, raised |-> "none",
   hits |-> search_multimodal(dcs, tq, iq, limit, a, respT, respI)]

\* ------------------------------------------- search_by_text, search_by_image
\* query_embedding is the encoded query, <<>> for None.
NotAsked == [ok |-> TRUE, ids |-> <<>>]

search_by_text(dcs, query_embedding, resp) ==
  IF query_embedding = <<>> THEN <<>>
  ELSE vector_search(dcs, query_embedding, "text", resp)

search_by_image(dcs, query_embedding, query_type, resp) ==
  IF query_embedding = <<>> THEN <<>>
  ELSE vector_search(dcs, query_embedding, query_type, resp)

search_by_text_out(dcs, q, limit, resp) ==
  [op |-> "search_by_text", q |-> q, query_type |-> "text", limit |-> limit,
   resp |-> resp, raised |-> "none", hits |-> search_by_text(dcs, q, resp)]

search_by_image_out(dcs, q, limit, resp) ==
  [op |-> "search_by_image", q |-> q, query_type |-> "image", limit |-> limit,
   resp |-> resp, raised |-> "none",
   hits |-> search_by_image(dcs, q, "image", resp)]

\* ------------------------------------------------- query and document pools
E1 == [j \in 1..Dim |-> IF j = 1 THEN 1 ELSE 0]
EDim == [j \in 1..Dim |-> IF j = Dim THEN 1 ELSE 0]
Twos == [j \in 1..Dim |-> 2]
Short == [j \in 1..(Dim - 1) |-> 1]
Neg == [j \in 1..Dim |-> 0 - 1]

QText == {E1, Short}
QImage == {EDim, Short}
Limits == 1..NumProducts
Alphas == 0..AlphaDen

\* Documents store_products can have written: whatever non-empty vectors the
\* provider returned.
DocPool ==
  { [text |-> E1, image |-> EDim], [text |-> Twos, image |-> EDim],
    [text |-> EDim, image |-> E1], [text |-> E1, image |-> Twos],
    [text |-> Short, image |-> E1], [text |-> Neg, image |-> EDim] }

\* ------------------------------------------------------------ search actions
\* The search methods call find_nearest, stream and document(id).get() only:
\* the collections are as before.
DocsAfterSearchWriteBack(dcs, hits) ==
  [p \in Products |->
     IF \E i \in 1..Len(hits) : hits[i].id = p
     THEN [text |-> dcs[p].text, image |-> dcs[p].image, cached |-> TRUE]
     ELSE dcs[p]]
DocsAfterSearch(dcs, hits) == dcs

\* A search call ends with outcome o.
Serve(o) ==
  /\ out' = o
  /\ docs' = DocsAfterSearch(docs, o.hits)
  /\ UNCHANGED <<is_emb, pc, snap, idx, failed, wrote, cause, flipped, prior,
                 stopped, fields>>

\* One request is served at a time; Return hands its result to the caller.
VectorSearch ==
  /\ out = NoSearch
  /\ \E q \in QText \cup QImage, qt \in {"text", "image"}, limit \in Limits :
       \E resp \in StoreResponses(docs, limit) :
         Serve(vector_search_out(docs, q, qt, limit, resp))

SearchMultimodal ==
  /\ out = NoSearch
  /\ \E tq \in QText, iq \in QImage, limit \in Limits, a \in Alphas :
       \E respT \in StoreResponses(docs, limit),
          respI \in StoreResponses(docs, limit) :
         Serve(search_multimodal_out(docs, tq, iq, limit, a, respT, respI))

\* query is the encoded query, <<>> when the provider returned None; the
\* store is asked only when there is one.
SearchByText ==
  /\ out = NoSearch
  /\ \E q \in QText \cup {<<>>}, limit \in Limits :
       \E resp \in IF q = <<>> THEN {NotAsked} ELSE StoreResponses(docs, limit) :
         Serve(search_by_text_out(docs, q, limit, resp))

SearchByImage ==
  /\ out = NoSearch
  /\ \E q \in QImage \cup {<<>>}, limit \in Limits :
       \E resp \in IF q = <<>> THEN {NotAsked} ELSE StoreResponses(docs, limit) :
         Serve(search_by_image_out(docs, q, limit, resp))

\* Searches issued while store_products runs: the store answers in id order
\* or fails, the provider encodes the query or returns None.
SearchWhileIndexing ==
  /\ out = NoSearch
  /\ LET resp == [ok |-> TRUE, ids |-> SeqOfSet(Stored(docs))]
     IN Serve(search_multimodal_out(docs, EncodeText(1), EncodeImage(1),
                                    NumProducts, 1, resp, resp))

SearchOneWhileIndexing ==
  /\ out = NoSearch
  /\ \E q \in {EncodeText(1), <<>>} :
       \E resp \in IF q = <<>> THEN {NotAsked}
                   ELSE {[ok |-> TRUE, ids |-> SeqOfSet(Stored(docs))], StoreRaises} :
         \/ Serve(search_by_text_out(docs, q, NumProducts, resp))
         \/ Serve(search_by_image_out(docs, q, NumProducts, resp))

Return ==
  /\ out # NoSearch
  /\ out' = NoSearch
  /\ UNCHANGED <<is_emb, docs, pc, snap, idx, failed, wrote, cause, flipped, prior,
                 stopped, fields>>

\* The catalog at start: each product is Pending and not yet embedded, or was
\* embedded by an earlier complete run.
Init ==
  /\ is_emb \in [Products -> {"R", "D"}]
  /\ docs = [p \in Products |->
              IF is_emb[p] = "D"
              THEN [text |-> EncodeText(p), image |-> EncodeImage(p)]
              ELSE NoDoc]
  /\ pc = [r \in Runs |-> "idle"]
  /\ snap = [r \in Runs |-> <<>>]
  /\ idx = [r \in Runs |-> 1]
  /\ failed = [r \in Runs |-> {}]
  /\ wrote = [r \in Runs |-> {}]
  /\ cause = [r \in Runs |-> "none"]
  /\ flipped = [r \in Runs |-> {}]
  /\ prior = [r \in Runs |-> {}]
  /\ stopped = [r \in Runs |-> {}]
  /\ fields = CatalogFields
  /\ out = NoSearch

Next ==
  \/ \E r \in Runs : Start(r)
  \/ \E r \in Runs : Embed(r)
  \/ \E r \in Runs : WriteDoc(r)
  \/ \E r \in Runs : Flip(r)
  \/ \E r \in Runs : Finish(r)
  \/ \E r \in Runs : Crash(r)
  \/ SearchWhileIndexing
  \/ SearchOneWhileIndexing
  \/ Return

Spec == Init /\ [][Next]_vars

\* The read path alone, over every catalog of embedded products.
InitSearch ==
  /\ docs \in [Products -> DocPool \cup {NoDoc}]
  /\ is_emb = [p \in Products |-> IF docs[p] = NoDoc THEN "R" ELSE "D"]
  /\ pc = [r \in Runs |-> "idle"]
  /\ snap = [r \in Runs |-> <<>>]
  /\ idx = [r \in Runs |-> 1]
  /\ failed = [r \in Runs |-> {}]
  /\ wrote = [r \in Runs |-> {}]
  /\ cause = [r \in Runs |-> "none"]
  /\ flipped = [r \in Runs |-> {}]
  /\ prior = [r \in Runs |-> {}]
  /\ stopped = [r \in Runs |-> {}]
  /\ fields = CatalogFields
  /\ out = NoSearch

NextSearch ==
  \/ VectorSearch
  \/ SearchMultimodal
  \/ SearchByText
  \/ SearchByImage
  \/ Return

SearchSpec == InitSearch /\ [][NextSearch]_vars


\* ================================================================== claims
Ended(r) == pc[r] \in {"done", "failed"}
StoreFailed(r) == cause[r] \in {"query", "set", "update"}
\* The positions of the snapshot whose record an ended invocation took up.
Attempted(r) ==
  {k \in 1..Len(snap[r]) : k < idx[r] \/ (k = idx[r] /\ snap[r][k] \in failed[r])}

\* C1: a failure on one pending record (text embedding, image fetch or decode,
\* image embedding) never aborts the batch: once store_products has returned
\* without a store failure, every record after a failed one was attempted, and
\* each one whose embeddings were both non-empty is stored and flipped.
C1_ItemFailureNeverAborts ==
  \A r \in Runs :
    (Ended(r) /\ ~StoreFailed(r)) =>
      \A k \in 1..Len(snap[r]) :
        snap[r][k] \in failed[r] =>
          \A m \in (k + 1)..Len(snap[r]) :
            /\ m \in Attempted(r)
            /\ snap[r][m] \notin failed[r] => snap[r][m] \in flipped[r]

\* C2: a record for which a step failed or an embedding came back empty gets
\* no embedding document and no flip from that invocation; when no other
\* invocation has started it has no document and is still Pending.
C2_FailedRecordUntouched ==
  \A r \in Runs : \A p \in failed[r] :
    /\ p \notin wrote[r]
    /\ p \notin flipped[r]
    /\ (\A r2 \in Runs \ {r} : pc[r2] = "idle") =>
         (is_emb[p] = "R" /\ docs[p] = NoDoc)

C2_Witness ==
  \E r \in Runs : pc[r] = "done" /\ failed[r] # {} /\ flipped[r] # {}

\* C3: every product that is Done has an embedding document, also after an
\* invocation failed or stopped anywhere.
C3_DoneHasDocument ==
  \A p \in Products : is_emb[p] = "D" => docs[p] # NoDoc

C3_Witness ==
  \E r \in Runs : pc[r] \in {"failed", "crashed"} /\ flipped[r] # {}

\* C4: no product has an embedding document while it is still Pending, also
\* when the update after the document write fails or the run stops there.
C4_NoDocumentWhilePending ==
  \A p \in Products : docs[p] # NoDoc => is_emb[p] = "D"

\* C5: is_emb never goes from Done back to Pending, whatever runs and searches
\* interleave.
C5_NeverReverts ==
  [][\A p \in Products : is_emb[p] = "D" => is_emb'[p] = "D"]_vars

C5_Witness ==
  \E r \in Runs :
    /\ flipped[r] # {}
    /\ out # NoSearch
    /\ \E r2 \in Runs \ {r} : pc[r2] \in {"loop", "write", "flip"}

\* C6: an invocation that starts after another one returned True with every
\* record of its snapshot stored finds no pending record, writes no document
\* and flips no state.
C6_SecondRunStoresNothing ==
  \A r1, r2 \in Runs :
    (r1 \in prior[r2] /\ failed[r1] = {}) =>
      (snap[r2] = <<>> /\ wrote[r2] = {} /\ flipped[r2] = {})

C6_Witness ==
  \E r1, r2 \in Runs :
    /\ r1 \in prior[r2]
    /\ failed[r1] = {}
    /\ Len(snap[r1]) = NumProducts
    /\ pc[r2] = "done"

\* C7: when two invocations overlap, no product id is indexed by both: its
\* embedding document is written once.
C7_NoIdIndexedTwice ==
  \A r1, r2 \in Runs : r1 # r2 => wrote[r1] \cap wrote[r2] = {}


\* Position of id in a sequence of ids / of hits (0 when absent).
PosIn(ids, id) ==
  IF \E i \in 1..Len(ids) : ids[i] = id
  THEN CHOOSE i \in 1..Len(ids) : ids[i] = id
  ELSE 0
Ids(hits) == [i \in 1..Len(hits) |-> hits[i].id]

\* C8: vector_search returns the candidates the store delivered, each scored
\* with the dot product of the query and its stored vector of the queried
\* modality, in descending order of that score; candidates with equal score
\* keep the order in which the store delivered them.
C8_ResortedStable ==
  (out.op = "vector_search" /\ out.resp.ok) =>
    LET hits == out.hits
        cand == out.resp.ids
    IN /\ Len(hits) = Len(cand)
       /\ \A i \in 1..Len(cand) : PosIn(Ids(hits), cand[i]) # 0
       /\ \A i \in 1..Len(hits) :
            LET v == VectorField(docs[hits[i].id], out.query_type)
            IN Len(v) = Len(out.q) => hits[i].score = Dot(out.q, v)
       /\ \A i, j \in 1..Len(hits) :
            i < j =>
              /\ hits[i].score >= hits[j].score
              /\ hits[i].score = hits[j].score =>
                   PosIn(cand, hits[i].id) < PosIn(cand, hits[j].id)

\* The store delivered the better candidate last and vector_search moved it up.
C8_Witness ==
  /\ out.op = "vector_search"
  /\ out.resp.ok
  /\ Len(out.hits) >= 2
  /\ out.hits[1].score > out.hits[2].score
  /\ out.resp.ids[1] # out.hits[1].id

\* C9: a search given a query vector whose length is not D, or a multimodal
\* search whose two query vectors differ in length, fails with a
\* DimensionMismatch error and returns no result (stated for the searches in
\* which the store answered with candidates).
QueryMismatch ==
  \/ /\ out.op = "vector_search"
     /\ Len(out.q) # Dim
     /\ out.resp.ok /\ out.resp.ids # <<>>
  \/ /\ out.op = "multimodal"
     /\ (Len(out.tq) # Dim \/ Len(out.iq) # Dim \/ Len(out.tq) # Len(out.iq))
     /\ out.respT.ok /\ out.respT.ids # <<>>
     /\ out.respI.ok /\ out.respI.ids # <<>>
C9_MismatchIsAnError ==
  QueryMismatch => (out.raised = "DimensionMismatch" /\ out.hits = <<>>)

\* The inputs the data model allows: every query and stored vector has length D.
WellFormed ==
  /\ out.op = "multimodal"
  /\ Len(out.tq) = Dim /\ Len(out.iq) = Dim
  /\ \A i \in 1..Len(out.hits) :
       Len(out.hits[i].text) = Dim /\ Len(out.hits[i].image) = Dim

TextRanking == Ids(vector_search(docs, out.tq, "text", out.respT))
ImageRanking == Ids(vector_search(docs, out.iq, "image", out.respI))

\* Two hits that both occur in a ranking are in that ranking's relative order.
SameOrder(hits, ranking) ==
  \A i, j \in 1..Len(hits) :
    (i < j /\ PosIn(ranking, hits[i].id) # 0 /\ PosIn(ranking, hits[j].id) # 0)
      => PosIn(ranking, hits[i].id) < PosIn(ranking, hits[j].id)

\* C10 as stated: with alpha = 0 the fused order is the text-only ranking
\* restricted to the merged set, with alpha = 1 the image-only ranking.
C10_BoundaryEqualsSingleModality ==
  WellFormed =>
    /\ out.a = 0 => SameOrder(out.hits, TextRanking)
    /\ out.a = AlphaDen => SameOrder(out.hits, ImageRanking)

\* C10 amended: when every query and stored vector has length D and the
\* returned candidates' stored vectors of the modality have one common norm,
\* alpha = 0 returns the candidates in the text-only ranking's relative order,
\* and alpha = 1 returns any two candidates with different image scores in the
\* image-only ranking's relative order.
EqualNorms(hits, query_type) ==
  \A i, j \in 1..Len(hits) :
    Sq(VectorField(hits[i], query_type)) = Sq(VectorField(hits[j], query_type))

C10_BoundaryOnEqualNorms ==
  WellFormed =>
    /\ (out.a = 0 /\ EqualNorms(out.hits, "text")) =>
         SameOrder(out.hits, TextRanking)
    /\ (out.a = AlphaDen /\ EqualNorms(out.hits, "image")) =>
         \A i, j \in 1..Len(out.hits) :
           LET x == out.hits[i]
               y == out.hits[j]
           IN (/\ i < j
               /\ PosIn(ImageRanking, x.id) # 0
               /\ PosIn(ImageRanking, y.id) # 0
               /\ Dot(out.iq, x.image) # Dot(out.iq, y.image))
                => PosIn(ImageRanking, x.id) < PosIn(ImageRanking, y.id)

\* alpha = 0, two returned candidates of equal text norm and different text
\* score, both in the text-only ranking.
C10_Witness ==
  /\ WellFormed
  /\ out.a = 0
  /\ EqualNorms(out.hits, "text")
  /\ Len(out.hits) >= 2
  /\ Dot(out.tq, out.hits[1].text) # Dot(out.tq, out.hits[2].text)
  /\ PosIn(TextRanking, out.hits[1].id) # 0
  /\ PosIn(TextRanking, out.hits[2].id) # 0


\* The cosine of a candidate's combined embedding against the combined query.
FusedCos(doc) ==
  cosine_similarity(CombinedEmbedding(out.a, doc),
                    WeightedSum(out.a, out.iq, out.tq))
\* dot / sqrt(na * nb), 0 when a norm is 0: c1 >= c2
CosineGeq(c1, c2) ==
  LET d1 == IF c1.na = 0 \/ c1.nb = 0 THEN 0 ELSE c1.dot
      d2 == IF c2.na = 0 \/ c2.nb = 0 THEN 0 ELSE c2.dot
      n1 == IF d1 = 0 THEN 1 ELSE c1.na * c1.nb
      n2 == IF d2 = 0 THEN 1 ELSE c2.na * c2.nb
  IN IF d1 >= 0 /\ d2 < 0 THEN TRUE
     ELSE IF d1 < 0 /\ d2 >= 0 THEN FALSE
     ELSE IF d1 >= 0 THEN d1 * d1 * n2 >= d2 * d2 * n1
     ELSE d1 * d1 * n2 <= d2 * d2 * n1

\* Insertion order of the merge: the text list, then the image-only candidates.
MergeOrder(tr, ir) ==
  tr \o SelectSeq(ir, LAMBDA id : PosIn(tr, id) = 0)

StoreFailedInSearch ==
  /\ out.op \in {"vector_search", "search_by_text", "search_by_image"}
  /\ out.q # <<>>
  /\ out.resp = StoreRaises

\* C12: a store failure during a search reaches the caller as an error and
\* never as the ordinary empty list returned when there is nothing to search.
C12_StoreFailurePropagates ==
  StoreFailedInSearch => out.raised # "none"

\* The stored vector the search scored for a hit is not a length-Dim vector.
Malformed(hit) == Len(VectorField(docs[hit.id], out.query_type)) # Dim

\* C13: in vector_search, a candidate whose stored embedding for the queried
\* modality is missing or of the wrong dimension gets score 0 without an error,
\* still appears in the output, and is at the bottom: no well-formed hit is
\* ranked after it unless that hit's score is also 0.
C13_MalformedAtBottom ==
  (out.op = "vector_search" /\ out.resp.ok /\ Len(out.q) = Dim) =>
    LET hits == out.hits IN
    /\ out.raised = "none"
    /\ \A k \in 1..Len(out.resp.ids) : PosIn(Ids(hits), out.resp.ids[k]) # 0
    /\ \A i \in 1..Len(hits) :
         Malformed(hits[i]) =>
           /\ hits[i].score = 0
           /\ \A j \in (i + 1)..Len(hits) :
                ~Malformed(hits[j]) => hits[j].score = 0

\* Run r1 had stopped with p's document written and p not yet marked when run
\* r2 started, and r2 ran to its end with p's embeddings succeeding.
RetriedAfterStop(r1, r2, p) ==
  /\ r1 \in stopped[r2]
  /\ p \in wrote[r1] \ flipped[r1]
  /\ pc[r2] = "done"
  /\ p \notin failed[r2]

\* C14: a product whose document was written by a run that stopped before
\* marking it is picked up again by the next complete run, its document is
\* overwritten under the same id, and it ends Done with that one document.
C14_RetryCompletes ==
  \A r1, r2 \in Runs, p \in Products :
    RetriedAfterStop(r1, r2, p) =>
      /\ PosIn(snap[r2], p) # 0
      /\ p \in wrote[r2]
      /\ p \in flipped[r2]
      /\ is_emb[p] = "D"
      /\ docs[p] = [text |-> EncodeText(p), image |-> EncodeImage(p)]

C14_Witness ==
  \E r1, r2 \in Runs, p \in Products :
    /\ RetriedAfterStop(r1, r2, p)
    /\ pc[r1] = "crashed"

\* A step in which a search call is served.
SearchStep == out' # out /\ out' # NoSearch

\* C15: the search methods leave every product record (is_emb included) and
\* every embedding document as they were, whatever the query and whether the
\* store answers or fails; and store_products changes no field of a product
\* record other than is_emb.
C15_ReadPathReadOnly ==
  [][/\ SearchStep => (is_emb' = is_emb /\ docs' = docs /\ fields' = fields)
     /\ fields' = fields]_vars

\* A search returned hits after a run had marked a product.
C15_Witness ==
  /\ out # NoSearch
  /\ out.hits # <<>>
  /\ \E r \in Runs : flipped[r] # {}

====
